---- MODULE Spec2Model ----
(***************************************************************************)
(* Model of queue_scraper.py: one run of main() fetches the queue table,   *)
(* builds the Slack client, and for every requested project diffs the      *)
(* freshly computed snapshot against <project>_samples.json, overwrites    *)
(* the file and posts the notifications.                                   *)
(***************************************************************************)
EXTENDS Integers, Sequences, FiniteSets, TLC

\* ---- bounds ----
MaxRows == 2           \* rows of the fetched table
MaxArgs == 2           \* length of the positional project list
MaxNow == 2            \* last instant of the modelled clock

\* the projects asked for: project 1 has rows in the sheet, project 2 has none
Projects == {1, 2}

\* ---- dates: text in the sheet and the json file, datetime in memory ----

\* A date text "m/d/y"; padded says whether month and day are written with
\* two digits ("01/01/2031") or not ("1/1/2031").
DateText(m, d, y, padded) == [m |-> m, d |-> d, y |-> y, padded |-> padded]

\* An 'Imaging Date' cell: NaN (empty cell) or a one-element tuple holding text
NaN == << >>
notna(cell) == cell # NaN

\* datetime.strptime(x, '%m/%d/%Y') succeeds on one- and two-digit fields,
\* and raises ValueError when the fields are no calendar date
strptime_ok(x) == x.m \in 1 .. 12 /\ x.d \in 1 .. 31 /\ x.y \in 1 .. 9999

\* the datetime it returns: midnight (frac = 0) of that day
strptime(x) == [year |-> x.y, month |-> x.m, day |-> x.d, frac |-> 0]

\* x.strftime('%m/%d/%Y'): always two-digit month and day
strftime_unpadded(x) == DateText(x.month, x.day, x.year, FALSE)
strftime(x) == DateText(x.month, x.day, x.year, TRUE)

\* [datetime.strptime(x, '%m/%d/%Y') for x in texts]
ParseAll(texts) == [i \in 1 .. Len(texts) |-> strptime(texts[i])]
\* [x.strftime('%m/%d/%Y') for x in dates]
FormatAll(dates) == [i \in 1 .. Len(dates) |-> strftime(dates[i])]

\* datetime comparison a > b: lexicographic on year, month, day, time of day
DtGreater(a, b) ==
    \/ a.year > b.year
    \/ a.year = b.year /\ a.month > b.month
    \/ a.year = b.year /\ a.month = b.month /\ a.day > b.day
    \/ a.year = b.year /\ a.month = b.month /\ a.day = b.day /\ a.frac > b.frac

\* The value datetime.now() returns at clock instant i.  The instants are
\*   0: 01/01/2030 00:00   1: later on 01/01/2030
\*   2: 12/01/2030 00:00   3: later on 12/01/2030
\*   4: 01/01/2031 00:00   5: later on 01/01/2031  ...
Instant(i) == [year |-> 2030 + (i \div 4),
               month |-> IF (i % 4) \div 2 = 0 THEN 1 ELSE 12,
               day |-> 1,
               frac |-> i % 2]

Row(p, onsite, cell) == [ProjectID |-> p, Onsite |-> onsite, ImagingDate |-> cell]

\* the rows a project has in the sheet: a sample onsite and not scheduled,
\* one onsite and scheduled for "12/01/2030", one not onsite and scheduled
\* for "1/1/2031", and one whose imaging date "13/01/2030" is no date
RowsOf(p) ==
    { Row(p, "Yes", NaN),
      Row(p, "Yes", <<DateText(12, 1, 2030, TRUE)>>),
      Row(p, "No", <<DateText(1, 1, 2031, FALSE)>>),
      Row(p, "No", <<DateText(13, 1, 2030, TRUE)>>) }

SeqsUpTo(S, n) == UNION { [1 .. k -> S] : k \in 0 .. n }

\* ---- python values False / int / list ----
PyFalse == [isval |-> FALSE, n |-> 0, items |-> << >>]
PyInt(k) == [isval |-> TRUE, n |-> k, items |-> << >>]
PyList(s) == [isval |-> TRUE, n |-> 0, items |-> s]
\* truth value of new_ready (False or an int)
TruthyInt(v) == v.isval /\ v.n # 0
\* truth value of new_scheduled (False or a list)
TruthyList(v) == v.isval /\ v.items # << >>

Range(s) == { s[i] : i \in 1 .. Len(s) }

\* ---- find_current_samples ----
ProjectRows(table, project) == SelectSeq(table, LAMBDA r : r.ProjectID = project)
ImagingDates(table, project) ==
    LET df == ProjectRows(table, project)
        dated == SelectSeq(df, LAMBDA r : notna(r.ImagingDate))
    IN  [i \in 1 .. Len(dated) |-> dated[i].ImagingDate[1]]

\* strptime raises ValueError on some imaging date of the project
CurrentRaises(table, project) ==
    \E x \in Range(ImagingDates(table, project)) : ~ strptime_ok(x)

\* [x for x in s if x > datetime.now()], the clock read once per element:
\* ts[i] is the instant read for s[i]
RECURSIVE FilterFuture(_, _)
FilterFuture(s, ts) ==
    IF s = << >> THEN << >>
    ELSE (IF DtGreater(Head(s), Instant(Head(ts))) THEN <<Head(s)>> ELSE << >>)
         \o FilterFuture(Tail(s), Tail(ts))

RECURSIVE FilterPast(_, _)
FilterPast(s, ts) ==
    IF s = << >> THEN << >>
    ELSE (IF DtGreater(Instant(Head(ts)), Head(s)) THEN <<Head(s)>> ELSE << >>)
         \o FilterPast(Tail(s), Tail(ts))

\* the snapshot of a project without rows
NoSamples == [ready |-> 0, scheduled |-> << >>]

find_current_samples(table, project, ts) ==
    LET df == ProjectRows(table, project)
    IN  IF df = << >> THEN NoSamples
        ELSE [ready |-> Len(SelectSeq(df, LAMBDA r : r.Onsite = "Yes")),
              scheduled |-> FilterFuture(ParseAll(ImagingDates(table, project)), ts)]

\* ---- the snapshot store ----
NoFile == [exists |-> FALSE, ready |-> 0, scheduled |-> << >>]
FileOf(samples) == [exists |-> TRUE, ready |-> samples.ready,
                    scheduled |-> samples.scheduled]

\* the snapshot substituted for a missing file
DefaultSamplesOne == [ready |-> 1, scheduled |-> << >>]
DefaultSamples == [ready |-> 0, scheduled |-> << >>]

get_old_samples_past(fs, project, ts) ==
    IF fs[project].exists
    THEN [ready |-> fs[project].ready,
          scheduled |-> FilterPast(ParseAll(fs[project].scheduled), ts)]
    ELSE DefaultSamples
get_old_samples(fs, project, ts) ==
    IF fs[project].exists
    THEN [ready |-> fs[project].ready,
          scheduled |-> FilterFuture(ParseAll(fs[project].scheduled), ts)]
    ELSE DefaultSamples

write_samples_once(fs, project, samples) ==
    IF fs[project].exists THEN fs ELSE [fs EXCEPT ![project] = FileOf(samples)]
write_samples(fs, project, samples) == [fs EXCEPT ![project] = FileOf(samples)]

\* ---- detect_changes: the two comparisons ----
NewReadyAtLeast(current, old) ==
    IF current.ready >= old.ready THEN PyInt(current.ready - old.ready) ELSE PyFalse
NewReady(current, old) ==
    IF current.ready > old.ready THEN PyInt(current.ready - old.ready) ELSE PyFalse

NewScheduledSetDiff(current, old) ==
    LET fresh == SelectSeq(current.scheduled, LAMBDA x : x \notin Range(old.scheduled))
    IN  IF fresh # << >> THEN PyList(fresh) ELSE PyFalse
NewScheduled(current, old) ==
    IF Len(current.scheduled) > Len(old.scheduled)
    THEN PyList(SelectSeq(current.scheduled, LAMBDA x : x \notin Range(old.scheduled)))
    ELSE PyFalse

\* current['scheduled'] = [x.strftime('%m/%d/%Y') for x in current['scheduled']]
Formatted(current) ==
    [ready |-> current.ready, scheduled |-> FormatAll(current.scheduled)]

\* ---- make_slack_client ----
\* TRUE when make_slack_client ends in sys.exit(1)
\* channel, token: the value is given by the option or the environment;
\* auth: auth_test() accepts the token
ExitsEarlyNoRecheck(channel, token, auth) ==
    LET error_status == ~ channel \/ ~ token
    IN  \/ error_status /\ ~ token
        \/ ~ auth
ExitsEarly(channel, token, auth) ==
    LET error_status == ~ channel \/ ~ token
    IN  \/ error_status /\ ~ token
        \/ (error_status \/ ~ auth)

\* ---- main: the messages of one project, in posting order ----
ReadyMessage(project, n) ==
    [kind |-> "ready", project |-> project, n |-> n, dates |-> << >>]
ScheduledMessage(project, formatted) ==
    [kind |-> IF Len(formatted) = 1 THEN "scheduled_one" ELSE "scheduled_list",
     project |-> project, n |-> 0,
     dates |-> formatted]

MessagesForListed(project, new_ready, new_scheduled) ==
    (IF TruthyInt(new_ready) THEN <<ReadyMessage(project, new_ready.n)>> ELSE << >>)
    \o (IF new_scheduled.isval
        THEN <<ScheduledMessage(project, FormatAll(new_scheduled.items))>>
        ELSE << >>)
MessagesFor(project, new_ready, new_scheduled) ==
    (IF TruthyInt(new_ready) THEN <<ReadyMessage(project, new_ready.n)>> ELSE << >>)
    \o (IF TruthyList(new_scheduled)
        THEN <<ScheduledMessage(project, FormatAll(new_scheduled.items))>>
        ELSE << >>)

\* an exception nobody catches inside the for loop of main ends the run
AfterExceptionIsolated(i, n) ==
    [pc |-> IF i < n THEN "detect" ELSE "done", idx |-> i + 1]
AfterException(i, n) == [pc |-> "crashed", idx |-> i]

\* non-decreasing clock readings: n reads of datetime.now() starting at t
RECURSIVE ClockReadings(_, _)
ClockReadings(n, t) ==
    IF n = 0 THEN { << >> }
    ELSE UNION { { <<u>> \o r : r \in ClockReadings(n - 1, u) } : u \in t .. MaxNow }

\* ---- state ----
VARIABLES
    files,          \* project -> content of <project>_samples.json, or NoFile
    now,            \* clock instant
    pc,             \* position of the run: idle, detect, notify, done, exit1, crashed
    args,           \* args.project of the run
    idx,            \* position of the for loop in args.project
    df,             \* the table of the run, while its loop runs
    cred,           \* outcome of the fetch and of the credential lookups of the run
    current,        \* detect_changes: current (before formatting)
    old,            \* detect_changes: old
    new_ready,      \* detect_changes: new_ready
    new_scheduled,  \* detect_changes: new_scheduled
    fileFound,      \* get_old_samples found the file
    prior,          \* what held when detect_changes began: [repeat, missed]
    msgs,           \* messages posted by the run: [pos, msg]
    opened,         \* positions of args.project whose file the run opened
    raised,         \* an exception was raised in the run
    lastCurrent,    \* project -> current of its last completed check
    baseline        \* project -> what the table held for it at its last completed
                    \* check and whether a post of that check raised; kept while
                    \* none of those dates has passed and no run sees other rows

vars == <<files, now, pc, args, idx, df, cred, current, old, new_ready,
          new_scheduled, fileFound, prior, msgs, opened, raised,
          lastCurrent, baseline>>

locals == <<current, old, new_ready, new_scheduled, fileFound, prior>>

NoPrior == [repeat |-> FALSE, missed |-> FALSE]
NoTable == << >>

\* the loop of main is running
Running(p) == p \in {"detect", "notify"}

\* what find_current_samples reads of the table for a project
Seen(table, project) ==
    [ready |-> Len(SelectSeq(ProjectRows(table, project), LAMBDA r : r.Onsite = "Yes")),
     dates |-> ParseAll(ImagingDates(table, project))]

\* no date of dates is in the future at instant t0 and not at instant t1
NoDatePasses(dates, t0, t1) ==
    \A x \in Range(dates) : DtGreater(x, Instant(t0)) <=> DtGreater(x, Instant(t1))

\* the baselines that survive the clock going from now to instant t
Unpassed(b, t) ==
    [p \in Projects |->
        IF b[p] # << >> /\ NoDatePasses(b[p][1].dates, now, t) THEN b[p] ELSE << >>]

\* the baselines that survive a run that fetches table
StillSeen(b, table) ==
    [p \in Projects |->
        IF /\ b[p] # << >>
           /\ b[p][1].ready = Seen(table, p).ready
           /\ b[p][1].dates = Seen(table, p).dates
        THEN b[p] ELSE << >>]

\* the last completed check of the project saw the same ready count and
\* imaging dates as the table of the run holds, and none of the dates has
\* passed from the instant it began to instant t
Repeats(project, t) == Unpassed(baseline, t)[project] # << >>

\* a post of that check raised
Missed(project) == baseline[project] # << >> /\ baseline[project][1].missed

\* fetch: the sheet can be fetched; channel, token: one is given; auth: the
\* given token is one auth_test accepts (no token, nothing to accept).
\* After a failed fetch nothing is looked up.
CredOutcomes ==
    { c \in [fetch : BOOLEAN, channel : BOOLEAN, token : BOOLEAN, auth : BOOLEAN] :
        /\ ~ c.token => ~ c.auth
        /\ ~ c.fetch => c.channel /\ c.token /\ c.auth }

NoCred == [fetch |-> TRUE, channel |-> TRUE, token |-> TRUE, auth |-> TRUE]

Init ==
    /\ files = [p \in Projects |-> NoFile]
    /\ now = 1
    /\ pc = "idle"
    /\ args = << >>
    /\ idx = 1
    /\ df = NoTable
    /\ cred = NoCred
    /\ current = NoSamples
    /\ old = NoSamples
    /\ new_ready = PyFalse
    /\ new_scheduled = PyFalse
    /\ fileFound = FALSE
    /\ prior = NoPrior
    /\ msgs = << >>
    /\ opened = {}
    /\ raised = FALSE
    /\ lastCurrent = [p \in Projects |-> << >>]
    /\ baseline = [p \in Projects |-> << >>]

ClearLocals ==
    /\ current' = NoSamples
    /\ old' = NoSamples
    /\ new_ready' = PyFalse
    /\ new_scheduled' = PyFalse
    /\ fileFound' = FALSE
    /\ prior' = NoPrior

\* the clock advances
Tick ==
    /\ now < MaxNow
    /\ now' = now + 1
    /\ baseline' = Unpassed(baseline, now + 1)
    /\ UNCHANGED <<files, pc, args, idx, df, cred, locals, msgs, opened, raised,
                   lastCurrent>>

\* main up to the for loop: get_table, then make_slack_client.
\* c is the outcome of the lookups: the fetch succeeds, a channel and a token
\* are given, auth_test accepts the token.
StartRun(argLists, tables) ==
    /\ pc = "idle"
    /\ \E a \in argLists, c \in CredOutcomes :
        /\ args' = a
        /\ idx' = 1
        /\ cred' = c
        /\ msgs' = << >>
        /\ opened' = {}
        /\ ClearLocals
        /\ IF ~ c.fetch
           THEN \* HTTPError is logged, logging.debug(df) raises UnboundLocalError
                /\ pc' = "crashed"
                /\ raised' = TRUE
                /\ UNCHANGED <<df, baseline>>
           ELSE IF ExitsEarly(c.channel, c.token, c.auth)
           THEN /\ pc' = "exit1"
                /\ raised' = FALSE
                /\ UNCHANGED <<df, baseline>>
           ELSE \E table \in tables :
                /\ pc' = "detect"
                /\ raised' = FALSE
                /\ df' = table
                /\ baseline' = StillSeen(baseline, table)
    /\ UNCHANGED <<files, now, lastCurrent>>

\* detect_changes(df, args.project[idx])
Detect ==
    /\ pc = "detect"
    /\ LET project == args[idx]
           n1 == Len(ImagingDates(df, project))
           n2 == Len(files[project].scheduled)
           failed == AfterException(idx, Len(args))
       IN  IF CurrentRaises(df, project)
           THEN \* ValueError in find_current_samples, before the file is opened
                /\ pc' = failed.pc
                /\ idx' = failed.idx
                /\ raised' = TRUE
                /\ df' = IF Running(failed.pc) THEN df ELSE NoTable
                /\ UNCHANGED <<files, now, locals, opened, lastCurrent, baseline>>
           ELSE \E ts \in ClockReadings(n1 + n2, now) :
                LET cur == find_current_samples(df, project, SubSeq(ts, 1, n1))
                    o == get_old_samples(files, project, SubSeq(ts, n1 + 1, n1 + n2))
                    end == IF ts = << >> THEN now ELSE ts[Len(ts)]
                IN  /\ current' = cur
                    /\ old' = o
                    /\ fileFound' = files[project].exists
                    /\ prior' = [repeat |-> Repeats(project, end),
                                 missed |-> Missed(project)]
                    /\ new_ready' = NewReady(cur, o)
                    /\ new_scheduled' = NewScheduled(cur, o)
                    /\ files' = write_samples(files, project, Formatted(cur))
                    /\ now' = end
                    /\ opened' = opened \cup {idx}
                    /\ lastCurrent' = [lastCurrent EXCEPT ![project] = <<cur>>]
                    /\ baseline' = Unpassed([baseline EXCEPT ![project] =
                                                << [ready |-> Seen(df, project).ready,
                                                    dates |-> Seen(df, project).dates,
                                                    missed |-> FALSE] >>], end)
                    /\ pc' = "notify"
                    /\ UNCHANGED <<idx, raised, df>>
    /\ UNCHANGED <<args, cred, msgs>>

\* the rest of the loop body: the posts for args.project[idx]; the first k
\* posts succeed, and when k is less than their number the next one raises
Notify ==
    /\ pc = "notify"
    /\ LET project == args[idx]
           out == MessagesFor(project, new_ready, new_scheduled)
           failed == AfterException(idx, Len(args))
       IN  \E k \in 0 .. Len(out) :
           /\ msgs' = msgs \o [i \in 1 .. k |-> [pos |-> idx, msg |-> out[i]]]
           /\ IF k < Len(out)
              THEN /\ pc' = failed.pc
                   /\ idx' = failed.idx
                   /\ raised' = TRUE
                   /\ df' = IF Running(failed.pc) THEN df ELSE NoTable
                   /\ baseline' = [p \in Projects |->
                                      IF p = project /\ baseline[p] # << >>
                                      THEN <<[baseline[p][1] EXCEPT !.missed = TRUE]>>
                                      ELSE baseline[p]]
                   /\ UNCHANGED locals
              ELSE /\ pc' = IF idx < Len(args) THEN "detect" ELSE "done"
                   /\ idx' = idx + 1
                   /\ df' = IF idx < Len(args) THEN df ELSE NoTable
                   /\ UNCHANGED <<baseline, raised>>
                   /\ ClearLocals
    /\ UNCHANGED <<files, now, args, cred, opened, lastCurrent>>

\* the process of a finished run is gone: the files stay, and the next run
\* starts from nothing else
Exit ==
    /\ pc \in {"done", "exit1", "crashed"}
    /\ pc' = "idle"
    /\ args' = << >>
    /\ idx' = 1
    /\ cred' = NoCred
    /\ msgs' = << >>
    /\ opened' = {}
    /\ raised' = FALSE
    /\ ClearLocals
    /\ UNCHANGED <<files, now, df, lastCurrent, baseline>>

\* ---- the inputs of a run ----
\* the project lists: any order, a project perhaps several times, project 1
\* among them
ArgLists == { a \in SeqsUpTo(Projects, MaxArgs) : 1 \in Range(a) }
\* of the projects asked for, project 1 has rows in the sheet
Tables == SeqsUpTo(RowsOf(1), MaxRows)

Next ==
    \/ Tick
    \/ StartRun(ArgLists, Tables)
    \/ Detect
    \/ Notify
    \/ Exit

Spec == Init /\ [][Next]_vars

\* ---- properties ----

\* the project of the loop
Project == args[idx]

\* detect_changes has returned and its caller has not finished the project
Returned == pc = "notify" \/ (pc = "crashed" /\ idx \in opened)

\* the steps of the two loop actions (Tick leaves pc alone)
DetectStep == pc = "detect" /\ pc' = "notify"
NotifyStep == pc = "notify" /\ pc' # "notify"

\* dates as MM/DD/YYYY text: two-digit month and day
AsText(dates) ==
    [i \in 1 .. Len(dates) |->
        [m |-> dates[i].month, d |-> dates[i].day, y |-> dates[i].year, padded |-> TRUE]]

\* a snapshot as the json file holds it
AsStored(samples) ==
    [exists |-> TRUE, ready |-> samples.ready, scheduled |-> AsText(samples.scheduled)]

\* C1: new_ready differs from False exactly when current.ready exceeds the
\* stored ready count (0 when there is no file), and is then the difference;
\* a count that stays or drops gives False.
C1_NewReady ==
    Returned =>
        /\ (~ fileFound => old.ready = 0)
        /\ (new_ready # PyFalse) <=> (current.ready > old.ready)
        /\ (current.ready > old.ready =>
                /\ new_ready.isval
                /\ new_ready.n = current.ready - old.ready)
        /\ (current.ready <= old.ready => new_ready = PyFalse)

C1_Witness ==
    /\ pc = "notify" /\ fileFound
    /\ old.ready = 1 /\ current.ready = 2
    /\ new_ready = PyInt(1)

\* C2: new_scheduled is non-empty only when the filtered current list is
\* longer than the filtered stored list; when it is longer, the reported
\* dates are those of current not in old; a list of the same length with a
\* date replaced gives False.
C2_NewScheduled ==
    Returned =>
        LET cur == current.scheduled
            was == old.scheduled
            fresh == { i \in 1 .. Len(cur) : \A j \in 1 .. Len(was) : cur[i] # was[j] }
        IN  /\ (new_scheduled.isval /\ new_scheduled.items # << >>) => Len(cur) > Len(was)
            /\ Len(cur) > Len(was) =>
                  /\ new_scheduled.isval
                  /\ Len(new_scheduled.items) = Cardinality(fresh)
                  /\ Range(new_scheduled.items) = { cur[i] : i \in fresh }
            /\ Len(cur) <= Len(was) => new_scheduled = PyFalse

C2_Witness ==
    /\ pc = "notify"
    /\ Len(current.scheduled) = 1 /\ Len(old.scheduled) = 1
    /\ current.scheduled # old.scheduled
    /\ new_scheduled = PyFalse

\* C3: every delta has new_ready False or a positive integer and
\* new_scheduled False or a non-empty list.
C3_DeltaShape ==
    Returned =>
        /\ (new_ready = PyFalse \/ (new_ready.isval /\ new_ready.n > 0))
        /\ (new_scheduled = PyFalse \/ (new_scheduled.isval /\ new_scheduled.items # << >>))

\* C4: the file of a project holds the current snapshot of its last
\* completed check, dates as MM/DD/YYYY text, whatever the delta was.
C4_StoredIsLastCurrent ==
    \A p \in Projects :
        IF lastCurrent[p] = << >>
        THEN files[p] = NoFile
        ELSE files[p] = AsStored(lastCurrent[p][1])

C4_Witness ==
    /\ pc = "notify" /\ fileFound
    /\ current.ready < old.ready
    /\ Len(current.scheduled) < Len(old.scheduled)
    /\ new_ready = PyFalse /\ new_scheduled = PyFalse
    /\ files[Project] = AsStored(current)

\* C6: without a file the check completes unless the table itself is
\* malformed, old is {ready: 0, scheduled: []}, a positive current ready
\* count is reported as it is, a non-empty current list is reported whole,
\* and the file is created with the current snapshot.
C6_FirstRun ==
    /\ []((Returned /\ ~ fileFound) =>
            /\ old = [ready |-> 0, scheduled |-> << >>]
            /\ (current.ready > 0 => new_ready = PyInt(current.ready))
            /\ (current.scheduled # << >> => new_scheduled = PyList(current.scheduled))
            /\ files[Project] = AsStored(current))
    /\ [][(pc = "detect" /\ ~ files[Project].exists /\ pc' # "detect") =>
              \/ pc' = "notify" /\ files'[Project].exists
              \/ \E r \in Range(ProjectRows(df, Project)) :
                    /\ r.ImagingDate # << >>
                    /\ r.ImagingDate[1].m \notin 1 .. 12]_vars

C6_Witness ==
    /\ pc = "notify" /\ ~ fileFound
    /\ current.ready = 1 /\ new_ready = PyInt(1)
    /\ Len(current.scheduled) = 2 /\ new_scheduled = PyList(current.scheduled)
    /\ files[Project].exists

\* exit status of a finished run
ExitStatus == IF pc = "done" THEN 0 ELSE 1

\* C5: when the channel or the token is missing or the token is refused, the
\* run ends with a non-zero status, has posted nothing and has opened no
\* snapshot file, whatever projects were asked for.
C5_BadCredentialsStop ==
    (pc # "idle" /\ (~ cred.channel \/ ~ cred.token \/ ~ cred.auth)) =>
        /\ pc \in {"exit1", "crashed"}
        /\ ExitStatus # 0
        /\ msgs = << >>
        /\ opened = {}

C5_Witness ==
    /\ pc = "exit1"
    /\ ~ cred.channel /\ cred.token /\ cred.auth
    /\ Len(args) = 2
    /\ files[args[1]].exists
    /\ msgs = << >> /\ opened = {}

\* the messages a Notify step adds
Posted == SubSeq(msgs', Len(msgs) + 1, Len(msgs'))
PostedOfKind(kinds) == { i \in 1 .. Len(Posted) : Posted[i].msg.kind \in kinds }

\* the messages added are the ones the delta asks for: one ready message
\* exactly when new_ready is non-zero, one scheduled message exactly when
\* new_scheduled is non-empty, singular exactly for one date
PostedMatchesDelta ==
    /\ \A i \in 1 .. Len(Posted) : Posted[i].pos = idx /\ Posted[i].msg.project = Project
    /\ Cardinality(PostedOfKind({"ready"})) =
          (IF new_ready.isval /\ new_ready.n # 0 THEN 1 ELSE 0)
    /\ \A i \in PostedOfKind({"ready"}) : Posted[i].msg.n = new_ready.n
    /\ Cardinality(PostedOfKind({"scheduled_one", "scheduled_list"})) =
          (IF new_scheduled.isval /\ new_scheduled.items # << >> THEN 1 ELSE 0)
    /\ \A i \in PostedOfKind({"scheduled_one", "scheduled_list"}) :
          /\ Posted[i].msg.kind = "scheduled_one" <=> Len(new_scheduled.items) = 1
          /\ Posted[i].msg.dates = AsText(new_scheduled.items)
    /\ Len(Posted) <= 2

\* the messages added are among the ones the delta asks for
PostedWithinDelta ==
    /\ \A i \in 1 .. Len(Posted) : Posted[i].pos = idx /\ Posted[i].msg.project = Project
    /\ Cardinality(PostedOfKind({"ready"})) <=
          (IF new_ready.isval /\ new_ready.n # 0 THEN 1 ELSE 0)
    /\ Cardinality(PostedOfKind({"scheduled_one", "scheduled_list"})) <=
          (IF new_scheduled.isval /\ new_scheduled.items # << >> THEN 1 ELSE 0)
    /\ Len(Posted) <= 2

C8_SecondCheckIsEmpty ==
    /\ [][(DetectStep /\ Repeats(Project, now')) =>
              /\ new_ready' = PyFalse
              /\ new_scheduled' = PyFalse
              /\ files' = files]_vars
    /\ [][(NotifyStep /\ prior.repeat) => msgs' = msgs]_vars

C8_Witness ==
    /\ pc = "notify" /\ prior.repeat
    /\ idx = 2
    /\ current.ready > 0 /\ current.scheduled # << >>
    /\ new_ready = PyFalse /\ new_scheduled = PyFalse

\* C9: the projects are gone through in order; an exception at position k
\* ends the run there: the positions before k have their files written,
\* nothing is written or posted for a later position, in that run.
C9_AbortsAtFailure ==
    /\ [](/\ opened \in {1 .. (idx - 1), 1 .. idx}
          /\ \A i \in 1 .. Len(msgs) : msgs[i].pos <= idx
          /\ \A i \in 1 .. Len(msgs) - 1 : msgs[i].pos <= msgs[i + 1].pos
          /\ (raised => pc = "crashed")
          /\ (pc \in {"detect", "notify", "done"} =>
                 \A j \in 1 .. (idx - 1) : j <= Len(args) /\ files[args[j]].exists)
          /\ (pc \in {"detect", "notify"} =>
                 \A j \in 1 .. (idx - 1) : ~ CurrentRaises(df, args[j]))
          /\ (pc = "crashed" /\ cred.fetch =>
                 /\ idx <= Len(args)
                 /\ \A j \in 1 .. (idx - 1) : j \in opened /\ files[args[j]].exists
                 /\ \A j \in (idx + 1) .. Len(args) : j \notin opened))
    /\ [][/\ (pc = "crashed" =>
                /\ files' = files
                /\ msgs' \in {msgs, << >>}
                /\ opened' \in {opened, {}})
          /\ (\A q \in Projects : files'[q] # files[q] => DetectStep /\ q = Project)
          /\ (msgs' # msgs /\ msgs' # << >> => NotifyStep)]_vars

C9_Witness ==
    /\ pc = "crashed" /\ cred.fetch
    /\ Len(args) = 2 /\ idx = 1 /\ args[1] # args[2]
    /\ opened = {1}
    /\ files[args[1]].exists /\ ~ files[args[2]].exists

====
